---- MODULE Spec2Model ----
(***************************************************************************)
(* Model of knative.dev/pkg apis/duck/v1 addressable_types.go: the         *)
(* Addressable duck type, its AddressStatus container, the AddressableType *)
(* skeleton and the hooks attached to them.                                *)
(*                                                                         *)
(* A Go pointer or nil-able slice is modelled as an optional: Nil (<<>>)   *)
(* for nil, <<v>> for a pointer to v.  Go strings are TLA+ strings, so     *)
(* formatting and parsing are done character by character.                 *)
(***************************************************************************)
EXTENDS Integers, Sequences, FiniteSets, TLC

VARIABLES a, t, c, wire, ret, pre

vars == <<a, t, c, wire, ret, pre>>

\* Longest Addresses list drawn for an initial skeleton.
MaxAddresses == 2

Nil == <<>>

Some(v) == <<v>>

----------------------------------------------------------------------------
(* String helpers (strings.Index, strings.Count).                          *)

IndexOf(s, sub) ==
    LET hits == {i \in 1..(Len(s) - Len(sub) + 1) : SubSeq(s, i, i + Len(sub) - 1) = sub}
    IN  IF hits = {} THEN 0 ELSE CHOOSE i \in hits : \A j \in hits : i <= j

Count(s, ch) ==
    Cardinality({i \in 1..Len(s) : SubSeq(s, i, i) = ch})

----------------------------------------------------------------------------
(* Values.                                                                 *)

ZeroTypeMeta == [APIVersion |-> "", Kind |-> ""]

ZeroObjectMeta == [Name |-> "", Namespace |-> ""]

ZeroListMeta == [ResourceVersion |-> "", Continue |-> ""]

ZeroAddressable == [Name |-> Nil, URL |-> Nil, CACerts |-> Nil, Audience |-> Nil]

ZeroAddressStatus == [Address |-> Nil, Addresses |-> Nil]

ZeroAddressableType ==
    [TypeMeta |-> ZeroTypeMeta, ObjectMeta |-> ZeroObjectMeta, Status |-> ZeroAddressStatus]

ZeroAddressableTypeList ==
    [TypeMeta |-> ZeroTypeMeta, ListMeta |-> ZeroListMeta, Items |-> Nil]

----------------------------------------------------------------------------
(* fmt.Errorf("v1 is the highest known version, got: %T", x)               *)

ConvertFormat == "v1 is the highest known version, got: %T"

\* The dynamic type fmt prints for %T; a nil interface prints "<nil>".
TypeOf(x) == IF x = Nil THEN "<nil>" ELSE x[1].type

\* The receiver's own type, as %T would print it.
ReceiverType == "*v1.Addressable"

\* fmt.Errorf with one %T verb: the verb is replaced by the type of the operand.
Errorf(format, typ) ==
    LET i == IndexOf(format, "%T")
    IN  Some(SubSeq(format, 1, i - 1) \o typ \o SubSeq(format, i + 2, Len(format)))

----------------------------------------------------------------------------
(* schema.FromAPIVersionAndKind, reached through the embedded TypeMeta.    *)

ParseGroupVersion(gv) ==
    IF gv = "" \/ gv = "/"
    THEN [ok |-> TRUE, Group |-> "", Version |-> ""]
    ELSE IF Count(gv, "/") = 0
    THEN [ok |-> TRUE, Group |-> "", Version |-> gv]
    ELSE IF Count(gv, "/") = 1
    THEN LET i == IndexOf(gv, "/")
         IN  [ok |-> TRUE, Group |-> SubSeq(gv, 1, i - 1), Version |-> SubSeq(gv, i + 1, Len(gv))]
    ELSE [ok |-> FALSE, Group |-> "", Version |-> ""]

ConstantGroupVersionKind(tm) ==
    [Group |-> "duck.knative.dev", Version |-> "v1", Kind |-> "AddressableType"]

GroupVersionKind(tm) ==
    LET gv == ParseGroupVersion(tm.APIVersion)
    IN  IF gv.ok
        THEN [Group |-> gv.Group, Version |-> gv.Version, Kind |-> tm.Kind]
        ELSE [Group |-> "", Version |-> "", Kind |-> tm.Kind]

----------------------------------------------------------------------------
(* apis.URL as a JSON string: String() on the way out, ParseURL on the way *)
(* in.                                                                     *)

ZeroURL == [Scheme |-> "", Host |-> "", Path |-> ""]

URLString(u) ==
    IF u = ZeroURL THEN "" ELSE u.Scheme \o "://" \o u.Host \o u.Path

ParseURL(s) ==
    IF s = "" THEN ZeroURL
    ELSE LET i    == IndexOf(s, "://")
             rest == SubSeq(s, i + 3, Len(s))
             j    == IndexOf(rest, "/")
         IN  [Scheme |-> SubSeq(s, 1, i - 1),
              Host   |-> IF j = 0 THEN rest ELSE SubSeq(rest, 1, j - 1),
              Path   |-> IF j = 0 THEN "" ELSE SubSeq(rest, j, Len(rest))]

----------------------------------------------------------------------------
(* encoding/json over the struct tags of Addressable.                      *)

AddressableKeys == {"name", "url", "CACerts", "audience"}

\* The field a `json:"<key>,omitempty"` tag is attached to.
Field(x, k) ==
    CASE k = "name"     -> x.Name
      [] k = "url"      -> x.URL
      [] k = "CACerts"  -> x.CACerts
      [] k = "audience" -> x.Audience

JSONValue(x, k) == IF k = "url" THEN URLString(x.URL[1]) ELSE Field(x, k)[1]

\* What the encoder would do were the fields plain strings tagged omitempty.
MarshalOmitEmptyStrings(x) ==
    [k \in {f \in AddressableKeys : Field(x, f) # Nil /\ JSONValue(x, f) # ""} |-> JSONValue(x, k)]

\* omitempty on a pointer field drops the key exactly when the pointer is nil.
MarshalAddressable(x) ==
    [k \in {f \in AddressableKeys : Field(x, f) # Nil} |-> JSONValue(x, k)]

\* Decoding into a fresh Addressable: a key allocates its field, no key leaves nil.
UnmarshalAddressable(w) ==
    [Name     |-> IF "name" \in DOMAIN w THEN Some(w["name"]) ELSE Nil,
     URL      |-> IF "url" \in DOMAIN w THEN Some(ParseURL(w["url"])) ELSE Nil,
     CACerts  |-> IF "CACerts" \in DOMAIN w THEN Some(w["CACerts"]) ELSE Nil,
     Audience |-> IF "audience" \in DOMAIN w THEN Some(w["audience"]) ELSE Nil]

----------------------------------------------------------------------------
(* The values the initial objects are drawn from.                          *)

Names == {Nil, Some(""), Some("http")}

URLs == {Nil,
         Some([Scheme |-> "http", Host |-> "foo.com", Path |-> ""]),
         Some([Scheme |-> "https", Host |-> "a", Path |-> "/x"])}

PEM == "-----BEGIN CERTIFICATE-----"

CACertsValues == {Nil, Some(PEM)}

Audiences == {Nil, Some("aud")}

Addressables == [Name : Names, URL : URLs, CACerts : CACertsValues, Audience : Audiences]

\* The addresses an initial status is built from.
StatusAddresses ==
    {[Name |-> Nil, URL |-> Some([Scheme |-> "http", Host |-> "a", Path |-> "/"]),
      CACerts |-> Nil, Audience |-> Nil],
     [Name |-> Some("https"), URL |-> Some([Scheme |-> "https", Host |-> "a", Path |-> "/"]),
      CACerts |-> Some(PEM), Audience |-> Some("aud")]}

AddressLists ==
    UNION {[1..n -> StatusAddresses] : n \in 0..MaxAddresses}

Statuses ==
    [Address   : {Nil} \cup {Some(x) : x \in StatusAddresses},
     Addresses : {Nil} \cup {Some(l) : l \in AddressLists}]

TypeMetas ==
    {ZeroTypeMeta,
     [APIVersion |-> "duck.knative.dev/v1", Kind |-> "AddressableType"],
     [APIVersion |-> "v1", Kind |-> "Service"],
     [APIVersion |-> "a/b/c", Kind |-> "Broken"]}

ObjectMetas == {ZeroObjectMeta, [Name |-> "sink", Namespace |-> "default"]}

AddressableTypes == [TypeMeta : TypeMetas, ObjectMeta : ObjectMetas, Status : Statuses]

\* An apis.Convertible handed to a conversion: nil, or a pointer of some concrete type.
Counterparts ==
    {Nil} \cup {Some([type |-> ty, obj |-> ZeroAddressable]) :
                  ty \in {"*v1.Addressable", "*v1beta1.Addressable"}}

Snapshot == [a |-> a, t |-> t, c |-> c]

Init ==
    /\ a \in Addressables
    /\ t \in AddressableTypes
    /\ c \in Counterparts
    /\ wire = Nil
    /\ ret = [op |-> "new", val |-> Nil]
    /\ pre = Snapshot

----------------------------------------------------------------------------
(* The hooks.  Every call records what it returned in ret and the objects  *)
(* as they were when it was made in pre.                                   *)

GetFullTypeEmbedding ==
    /\ ret' = [op |-> "GetFullType",
               val |-> [ZeroAddressableType EXCEPT !.Status.Address = Some(a)]]
    /\ pre' = Snapshot
    /\ UNCHANGED <<a, t, c, wire>>

GetFullType ==
    /\ ret' = [op |-> "GetFullType", val |-> ZeroAddressableType]
    /\ pre' = Snapshot
    /\ UNCHANGED <<a, t, c, wire>>

ConvertToReceiverType ==
    /\ ret' = [op |-> "ConvertTo", val |-> Errorf(ConvertFormat, ReceiverType)]
    /\ pre' = Snapshot
    /\ UNCHANGED <<a, t, c, wire>>

ConvertTo ==
    /\ ret' = [op |-> "ConvertTo", val |-> Errorf(ConvertFormat, TypeOf(c))]
    /\ pre' = Snapshot
    /\ UNCHANGED <<a, t, c, wire>>

ConvertFromCopying ==
    /\ IF c # Nil /\ c[1].type = ReceiverType
       THEN a' = c[1].obj /\ ret' = [op |-> "ConvertFrom", val |-> Nil]
       ELSE a' = a /\ ret' = [op |-> "ConvertFrom", val |-> Errorf(ConvertFormat, TypeOf(c))]
    /\ pre' = Snapshot
    /\ UNCHANGED <<t, c, wire>>

ConvertFrom ==
    /\ ret' = [op |-> "ConvertFrom", val |-> Errorf(ConvertFormat, TypeOf(c))]
    /\ pre' = Snapshot
    /\ UNCHANGED <<a, t, c, wire>>

PopulateWholeObject ==
    /\ t' = [ZeroAddressableType EXCEPT !.Status =
                 [Address |-> Some([Name     |-> Some("http"),
                                    URL      |-> Some([Scheme |-> "http", Host |-> "foo.com",
                                                       Path |-> ""]),
                                    CACerts  |-> Nil,
                                    Audience |-> Nil]),
                  Addresses |-> Nil]]
    /\ ret' = [op |-> "Populate", val |-> Nil]
    /\ pre' = Snapshot
    /\ UNCHANGED <<a, c, wire>>

PopulateInPlace ==
    /\ t' = [t EXCEPT !.Status.Address =
                 Some([(IF @ = Nil THEN ZeroAddressable ELSE @[1]) EXCEPT
                          !.Name = Some("http"),
                          !.URL = Some([Scheme |-> "http", Host |-> "foo.com", Path |-> ""])])]
    /\ ret' = [op |-> "Populate", val |-> Nil]
    /\ pre' = Snapshot
    /\ UNCHANGED <<a, c, wire>>

Populate ==
    /\ t' = [t EXCEPT !.Status =
                 [Address |-> Some([Name     |-> Some("http"),
                                    URL      |-> Some([Scheme |-> "http", Host |-> "foo.com",
                                                       Path |-> ""]),
                                    CACerts  |-> Nil,
                                    Audience |-> Nil]),
                  Addresses |-> Nil]]
    /\ ret' = [op |-> "Populate", val |-> Nil]
    /\ pre' = Snapshot
    /\ UNCHANGED <<a, c, wire>>

GetGroupVersionKind ==
    /\ ret' = [op |-> "GetGroupVersionKind", val |-> GroupVersionKind(t.TypeMeta)]
    /\ pre' = Snapshot
    /\ UNCHANGED <<a, t, c, wire>>

GetListTypeOfReceiver ==
    /\ ret' = [op |-> "GetListType",
               val |-> [ZeroAddressableTypeList EXCEPT !.Items = Some(t)]]
    /\ pre' = Snapshot
    /\ UNCHANGED <<a, t, c, wire>>

GetListType ==
    /\ ret' = [op |-> "GetListType", val |-> ZeroAddressableTypeList]
    /\ pre' = Snapshot
    /\ UNCHANGED <<a, t, c, wire>>

\* json.Marshal(a)
Marshal ==
    /\ wire' = MarshalAddressable(a)
    /\ ret' = [op |-> "Marshal", val |-> Nil]
    /\ pre' = Snapshot
    /\ UNCHANGED <<a, t, c>>

\* a = new(Addressable); json.Unmarshal(wire, a)
Unmarshal ==
    /\ a' = UnmarshalAddressable(wire)
    /\ ret' = [op |-> "Unmarshal", val |-> Nil]
    /\ pre' = Snapshot
    /\ UNCHANGED <<t, c, wire>>

----------------------------------------------------------------------------
(* A consumer of AddressStatus picking where to deliver.                   *)

DestinationsAddressFirst(st) ==
    IF st.Address # Nil THEN {st.Address}
    ELSE IF st.Addresses # Nil /\ Len(st.Addresses[1]) > 0
    THEN {Some(st.Addresses[1][i]) : i \in 1..Len(st.Addresses[1])}
    ELSE {Nil}

\* The destinations a consumer may pick; {Nil} when the owner is not ready.
Destinations(st) ==
    IF st.Addresses # Nil /\ Len(st.Addresses[1]) > 0
    THEN {Some(st.Addresses[1][i]) : i \in 1..Len(st.Addresses[1])}
    ELSE IF st.Address # Nil THEN {st.Address}
    ELSE {Nil}

Resolve ==
    /\ \E d \in Destinations(t.Status) : ret' = [op |-> "Resolve", val |-> d]
    /\ pre' = Snapshot
    /\ UNCHANGED <<a, t, c, wire>>

----------------------------------------------------------------------------

Next ==
    \/ GetFullType
    \/ ConvertTo
    \/ ConvertFrom
    \/ Populate
    \/ GetGroupVersionKind
    \/ GetListType
    \/ Marshal
    \/ Unmarshal
    \/ Resolve

Spec == Init /\ [][Next]_vars

----------------------------------------------------------------------------
(* Properties.                                                             *)

Contains(s, sub) == IndexOf(s, sub) # 0

Hooks ==
    {"GetFullType", "ConvertTo", "ConvertFrom", "Populate", "GetGroupVersionKind", "GetListType"}

\* The addresses reachable from a skeleton: the scalar one and the listed ones.
Reachable(x) ==
    (IF x.Status.Address = Nil THEN {} ELSE {x.Status.Address[1]})
    \cup (IF x.Status.Addresses = Nil THEN {}
          ELSE {x.Status.Addresses[1][i] : i \in 1..Len(x.Status.Addresses[1])})

\* C1: whatever the receiver holds and whatever counterpart is handed in, ConvertTo and
\* ConvertFrom return an error, never success, and the message contains the concrete
\* type of the counterpart ("<nil>" for a nil one, as %T prints it).
ConvertAlwaysFails ==
    ret.op \in {"ConvertTo", "ConvertFrom"} =>
        /\ ret.val # Nil
        /\ Contains(ret.val[1], IF c = Nil THEN "<nil>" ELSE c[1].type)

ConvertAlwaysFailsWitness ==
    /\ ret.op = "ConvertTo"
    /\ c # Nil
    /\ c[1].type = "*v1beta1.Addressable"
    /\ a.Name # Nil
    /\ a.Audience # Nil

PopulateFillsEveryField ==
    ret.op = "Populate" =>
        /\ t.Status.Address # Nil
        /\ t.Status.Addresses # Nil
        /\ \E x \in Reachable(t) : x.Name # Nil
        /\ \E x \in Reachable(t) : x.URL # Nil
        /\ \E x \in Reachable(t) : x.CACerts # Nil
        /\ \E x \in Reachable(t) : x.Audience # Nil

\* C4: an Address with exactly the fields of S present serializes to an object with
\* exactly the keys of S (name, url, CACerts, audience; the empty object for no field),
\* and decoding that object gives back the Address, the fields outside S still absent.
MarshalRoundTrip ==
    ret.op = "Marshal" =>
        /\ DOMAIN wire = (IF a.Name = Nil THEN {} ELSE {"name"})
                         \cup (IF a.URL = Nil THEN {} ELSE {"url"})
                         \cup (IF a.CACerts = Nil THEN {} ELSE {"CACerts"})
                         \cup (IF a.Audience = Nil THEN {} ELSE {"audience"})
        /\ (a = ZeroAddressable => wire = <<>>)
        /\ UnmarshalAddressable(wire) = a

MarshalRoundTripWitness ==
    /\ ret.op = "Marshal"
    /\ a.Name = Some("")
    /\ a.URL # Nil
    /\ a.CACerts = Nil
    /\ a.Audience = Nil

\* C5: a consumer resolving a status picks from addresses alone when addresses is present
\* and non-empty, picks address when only that is present, and picks nothing when both
\* are absent.
PrecedenceRule ==
    ret.op = "Resolve" =>
        IF t.Status.Addresses # Nil /\ t.Status.Addresses[1] # <<>>
        THEN /\ ret.val # Nil
             /\ \E i \in 1..Len(t.Status.Addresses[1]) : ret.val[1] = t.Status.Addresses[1][i]
        ELSE IF t.Status.Address # Nil
        THEN ret.val = t.Status.Address
        ELSE ret.val = Nil

PrecedenceRuleWitness ==
    /\ ret.op = "Resolve"
    /\ t.Status.Address # Nil
    /\ t.Status.Addresses # Nil
    /\ Len(t.Status.Addresses[1]) = 1
    /\ ret.val # t.Status.Address

\* C6, as stated: the skeleton GetFullType returns carries the receiver in its status.
GetFullTypeCarriesReceiver ==
    ret.op = "GetFullType" => a \in Reachable(ret.val)

\* C6, amended: GetFullType returns a zero-value skeleton whatever the receiver holds:
\* empty type and object metadata, status.address and status.addresses absent.
GetFullTypeZeroSkeleton ==
    ret.op = "GetFullType" =>
        /\ ret.val.TypeMeta = [APIVersion |-> "", Kind |-> ""]
        /\ ret.val.ObjectMeta = [Name |-> "", Namespace |-> ""]
        /\ ret.val.Status.Address = Nil
        /\ ret.val.Status.Addresses = Nil

GetFullTypeZeroSkeletonWitness ==
    /\ ret.op = "GetFullType"
    /\ a.Name = Some("http")
    /\ a.URL # Nil

GetListTypeZeroList ==
    ret.op = "GetListType" =>
        /\ ret.val.TypeMeta = [APIVersion |-> "", Kind |-> ""]
        /\ ret.val.ListMeta = [ResourceVersion |-> "", Continue |-> ""]
        /\ ret.val.Items = <<>>

GetListTypeZeroListWitness ==
    /\ ret.op = "GetListType"
    /\ t.TypeMeta.Kind = "Service"
    /\ t.Status.Addresses # Nil
    /\ t.Status.Addresses[1] # <<>>

\* C9, as stated: every hook leaves its receiver and its arguments as they were.
HooksArePure ==
    ret.op \in Hooks => a = pre.a /\ t = pre.t /\ c = pre.c

\* C9, amended: every hook but Populate leaves its receiver and its arguments as they
\* were; Populate leaves everything but the status of its receiver as it was.
HooksPureExceptPopulate ==
    /\ ret.op \in Hooks \ {"Populate"} => a = pre.a /\ t = pre.t /\ c = pre.c
    /\ ret.op = "Populate" =>
           /\ a = pre.a
           /\ c = pre.c
           /\ t = [pre.t EXCEPT !.Status = t.Status]

HooksPureExceptPopulateWitness ==
    /\ ret.op = "Populate"
    /\ t.Status # pre.t.Status
    /\ c # Nil
    /\ c[1].type = "*v1.Addressable"
    /\ a.CACerts # Nil

\* C10: whatever the skeleton held, after Populate its status is the sample value with
\* addresses absent, its type and object metadata are as before, and on a skeleton that
\* already holds the sample Populate changes nothing.
PopulateReplacesStatus ==
    ret.op = "Populate" =>
        /\ t.Status =
               [Address |-> <<[Name |-> <<"http">>,
                               URL |-> <<[Scheme |-> "http", Host |-> "foo.com", Path |-> ""]>>,
                               CACerts |-> <<>>,
                               Audience |-> <<>>]>>,
                Addresses |-> <<>>]
        /\ t.TypeMeta = pre.t.TypeMeta
        /\ t.ObjectMeta = pre.t.ObjectMeta
        /\ (pre.t.Status = t.Status => t = pre.t)

PopulateReplacesStatusWitness ==
    /\ ret.op = "Populate"
    /\ pre.t.Status.Addresses # Nil
    /\ Len(pre.t.Status.Addresses[1]) = MaxAddresses
    /\ pre.t.Status.Address # Nil
    /\ pre.t.Status.Address[1].CACerts # Nil
    /\ pre.t.Status.Address[1].Audience # Nil
    /\ pre.t.TypeMeta.Kind = "AddressableType"
    /\ pre.t.ObjectMeta.Name = "sink"

====
